---- MODULE Spec2Model ----
(***************************************************************************)
(* Model of fgo_farming_solver/main.py: the request handler of the farming *)
(* solver and the pure stages it calls (parameter decoding, quest          *)
(* selection, drop-rate merge, LP model build and solve, aggregation,      *)
(* projection, persistence).                                               *)
(*                                                                         *)
(* Strings are sequences of symbols: "," and ":" are the separators the    *)
(* code splits on, digits "0".."9", "-" and "." are what int()/float()     *)
(* read, and every other symbol is an opaque piece of text.  Real numbers  *)
(* are exact rationals <<n, d>> with d > 0 in lowest terms; binary         *)
(* floating-point rounding error is not modelled.                          *)
(***************************************************************************)
EXTENDS Integers, Sequences, FiniteSets, TLC

VARIABLES
    event,        \* event['queryStringParameters'] of the request
    pc,           \* position of the handler
    params,       \* the params dictionary of the handler
    quests,       \* the quests list of the handler
    drop_rates,   \* the drop_rates list of the handler
    problem,      \* the pulp problem built by solve
    solution,     \* item_counts and quest_laps returned by solve
    result,       \* the result dictionary of the handler
    table,        \* the records of the DynamoDB table
    response,     \* what the handler returned or raised
    trace,        \* the stages the handler has started, in order
    input,        \* the arguments of a stage function called on its own
    output        \* what that call returned

vars == <<event, pc, params, quests, drop_rates, problem, solution, result, table, response, trace,
          input, output>>

----------------------------------------------------------------------------
(* Bounds of the inputs the stage functions are called on                  *)

MaxAp == 3         \* base AP of a quest: 0..MaxAp
MaxSamples == 2    \* sample count of a wave: 0..MaxSamples, and 10

----------------------------------------------------------------------------
(* Generic helpers                                                         *)

Range(s) == {s[i] : i \in DOMAIN s}

Abs(n) == IF n < 0 THEN -n ELSE n

Min(a, b) == IF a < b THEN a ELSE b

RECURSIVE Gcd(_, _)
Gcd(a, b) == IF b = 0 THEN a ELSE Gcd(b, a % b)

RECURSIVE SumOver(_, _)
\* sum of f[x] for x in S, f integer-valued
SumOver(S, f) == IF S = {} THEN 0
                 ELSE LET x == CHOOSE y \in S : TRUE IN f[x] + SumOver(S \ {x}, f)

EmptyDict == [k \in {} |-> 0]

----------------------------------------------------------------------------
(* Exact rationals                                                         *)

RNorm(n, d) ==
    LET s == IF d < 0 THEN -1 ELSE 1
        g == Gcd(Abs(n), Abs(d))
    IN  IF n = 0 THEN <<0, 1>> ELSE <<(s * n) \div g, (s * d) \div g>>

RInt(n) == <<n, 1>>
RAdd(a, b) == RNorm(a[1] * b[2] + b[1] * a[2], a[2] * b[2])
RSub(a, b) == RNorm(a[1] * b[2] - b[1] * a[2], a[2] * b[2])
RMul(a, b) == RNorm(a[1] * b[1], a[2] * b[2])
RDiv(a, b) == RNorm(a[1] * b[2], a[2] * b[1])
RLt(a, b) == a[1] * b[2] < b[1] * a[2]
RLe(a, b) == a[1] * b[2] <= b[1] * a[2]
RIsZero(a) == a[1] = 0

RECURSIVE RSum(_, _)
\* sum of f[x] for x in S, f rational-valued
RSum(S, f) == IF S = {} THEN <<0, 1>>
              ELSE LET x == CHOOSE y \in S : TRUE IN RAdd(f[x], RSum(S \ {x}, f))

\* math.floor, math.ceil, int() and round() of Python on a real number
Floor(a) == a[1] \div a[2]
Ceil(a) == -((-a[1]) \div a[2])
Trunc(a) == IF a[1] >= 0 THEN Floor(a) ELSE Ceil(a)
Round(a) ==
    LET f == Floor(a)
        twice == RSub(RMul(RInt(2), a), RInt(2 * f))   \* 2 * fractional part
    IN  IF RLt(twice, RInt(1)) THEN f
        ELSE IF RLt(RInt(1), twice) THEN f + 1
        ELSE IF f % 2 = 0 THEN f ELSE f + 1

----------------------------------------------------------------------------
(* Strings                                                                 *)

Digits == {"0", "1", "2", "3", "4", "5", "6", "7", "8", "9"}

DigitVal(c) ==
    CASE c = "0" -> 0 [] c = "1" -> 1 [] c = "2" -> 2 [] c = "3" -> 3 [] c = "4" -> 4
      [] c = "5" -> 5 [] c = "6" -> 6 [] c = "7" -> 7 [] c = "8" -> 8 [] c = "9" -> 9

\* str.split(sep) of a non-empty string
Split(s, sep) ==
    LET RECURSIVE go(_, _, _)
        go(i, cur, acc) ==
            IF i > Len(s) THEN Append(acc, cur)
            ELSE IF s[i] = sep THEN go(i + 1, <<>>, Append(acc, cur))
            ELSE go(i + 1, Append(cur, s[i]), acc)
    IN  go(1, <<>>, <<>>)

RECURSIVE DigitsVal(_)
DigitsVal(s) == IF s = <<>> THEN 0 ELSE 10 * DigitsVal(SubSeq(s, 1, Len(s) - 1)) + DigitVal(s[Len(s)])

RECURSIVE Pow10(_)
Pow10(n) == IF n = 0 THEN 1 ELSE 10 * Pow10(n - 1)

AllDigits(s) == \A i \in DOMAIN s : s[i] \in Digits

\* int(s): an optional sign and one or more digits, ValueError otherwise
\* (ok = FALSE).  Whitespace, "+" and "_" of Python's syntax are not among
\* the symbols of the model.
ParseInt(s) ==
    LET neg == s /= <<>> /\ s[1] = "-"
        body == IF neg THEN Tail(s) ELSE s
    IN  IF body /= <<>> /\ AllDigits(body)
        THEN [ok |-> TRUE, val |-> IF neg THEN -DigitsVal(body) ELSE DigitsVal(body)]
        ELSE [ok |-> FALSE, val |-> 0]

\* float(s): an optional sign, digits, and an optional "." followed by
\* digits, with at least one digit; ValueError otherwise.
ParseFloat(s) ==
    LET neg == s /= <<>> /\ s[1] = "-"
        body == IF neg THEN Tail(s) ELSE s
        parts == Split(body, ".")
        whole == parts[1]
        frac == IF Len(parts) = 2 THEN parts[2] ELSE <<>>
        mag == RNorm(DigitsVal(whole) * Pow10(Len(frac)) + DigitsVal(frac), Pow10(Len(frac)))
    IN  IF Len(parts) <= 2 /\ AllDigits(whole) /\ AllDigits(frac) /\ Len(whole) + Len(frac) > 0
        THEN [ok |-> TRUE, val |-> IF neg THEN RNorm(-mag[1], mag[2]) ELSE mag]
        ELSE [ok |-> FALSE, val |-> <<0, 1>>]


----------------------------------------------------------------------------
(* Parameter normalisation: decode_params, validate_params, format_params  *)

Keys == {"fields", "quest_fields", "item_fields", "objective", "items", "quests",
         "ap_coefficients", "drop_merge_method"}

\* value.split(',') of a list-valued parameter; the default [] when the
\* parameter is absent or empty
DecodeList(value) == IF value = <<>> THEN <<>> ELSE Split(value, ",")

\* item.split(':') for item in value.split(',')
DecodePairs(value) == LET items == Split(value, ",") IN [i \in DOMAIN items |-> Split(items[i], ":")]

\* dict(...) of the pairs raises ValueError unless every element has length 2
DecodeDictRaises(value) == value /= <<>> /\ \E p \in Range(DecodePairs(value)) : Len(p) /= 2

\* dict(...) of the pairs: a later pair with the same key replaces an earlier one
DecodeDict(value) ==
    IF value = <<>> THEN EmptyDict
    ELSE LET pairs == DecodePairs(value)
             last(k) == CHOOSE i \in DOMAIN pairs :
                            pairs[i][1] = k /\ \A j \in DOMAIN pairs : pairs[j][1] = k => j <= i
         IN  [k \in {pairs[i][1] : i \in DOMAIN pairs} |-> pairs[last(k)][2]]

decode_params_raises(p) == DecodeDictRaises(p.items) \/ DecodeDictRaises(p.ap_coefficients)

\* decode_params with the defaults the handler passes
decode_params(p) ==
    [fields            |-> DecodeList(p.fields),
     quest_fields      |-> DecodeList(p.quest_fields),
     item_fields       |-> DecodeList(p.item_fields),
     objective         |-> IF p.objective = <<>> THEN <<"ap">> ELSE p.objective,
     items             |-> DecodeDict(p.items),
     quests            |-> DecodeList(p.quests),
     ap_coefficients   |-> DecodeDict(p.ap_coefficients),
     drop_merge_method |-> IF p.drop_merge_method = <<>> THEN <<"add">> ELSE p.drop_merge_method]

Objectives == {<<"ap">>, <<"lap">>}
MergeMethods == {<<"add">>, <<"1">>, <<"2">>}

NoError == [name |-> "", reason |-> ""]
ParamError(name, reason) == [name |-> name, reason |-> reason]

\* validate_params(params, objective=('ap', 'lap'), drop_merge_method=('add', '1', '2'))
validate_params(p) ==
    IF p.objective \notin Objectives THEN ParamError("objective", "must be ap or lap")
    ELSE IF p.drop_merge_method \notin MergeMethods
         THEN ParamError("drop_merge_method", "must be add or 1 or 2")
    ELSE NoError

\* format_params(params, items=int, ap_coefficients=float): the error it raises
format_params_error(p) ==
    IF \E k \in DOMAIN p.items : ~ParseInt(p.items[k]).ok
    THEN ParamError("items", "must be like string:number,string:number,...")
    ELSE IF \E k \in DOMAIN p.ap_coefficients : ~ParseFloat(p.ap_coefficients[k]).ok
         THEN ParamError("ap_coefficients", "must be like string:number,string:number,...")
    ELSE NoError

\* format_params(params, items=int, ap_coefficients=float): the params it returns
format_params(p) ==
    [p EXCEPT !.items = [k \in DOMAIN p.items |-> ParseInt(p.items[k]).val],
              !.ap_coefficients = [k \in DOMAIN p.ap_coefficients |-> ParseFloat(p.ap_coefficients[k]).val]]

----------------------------------------------------------------------------
(* Reference dataset: get_data and format_rows                             *)
(*                                                                         *)
(* The three CSV tables of the archive the handler downloads.  Two item    *)
(* kinds (X, Y) have drop-rate rows and a third (Z) has none, so the LP    *)
(* built from it has at most two constraints.                              *)

QuestsCsv ==
    << [id |-> <<"0", "0", "1">>, ap |-> <<"1", "0">>, samples_1 |-> <<"1", "0">>, samples_2 |-> <<"0">>],
       [id |-> <<"0", "0", "2">>, ap |-> <<"5">>,      samples_1 |-> <<"1">>,      samples_2 |-> <<"1">>],
       [id |-> <<"1", "0", "1">>, ap |-> <<"1">>,      samples_1 |-> <<>>,         samples_2 |-> <<>>] >>

ItemsCsv ==
    << [id |-> <<"X">>, name |-> <<"x">>],
       [id |-> <<"Y">>, name |-> <<"y">>],
       [id |-> <<"Z">>, name |-> <<"z">>] >>

DropRatesCsv ==
    << [quest_id |-> <<"0", "0", "1">>, item_id |-> <<"X">>, drop_rate_1 |-> <<"0", ".", "1">>, drop_rate_2 |-> <<>>],
       [quest_id |-> <<"0", "0", "2">>, item_id |-> <<"X">>, drop_rate_1 |-> <<"0", ".", "2">>, drop_rate_2 |-> <<"0", ".", "4">>],
       [quest_id |-> <<"0", "0", "2">>, item_id |-> <<"Y">>, drop_rate_1 |-> <<"0", ".", "3">>, drop_rate_2 |-> <<"0">>],
       [quest_id |-> <<"1", "0", "1">>, item_id |-> <<"Y">>, drop_rate_1 |-> <<"0", ".", "5">>, drop_rate_2 |-> <<"0", ".", "5">>] >>

\* the order sorted() gives the item ids of the dataset
ItemOrder == << <<"X">>, <<"Y">>, <<"Z">> >>

\* formatter(value or 0) with formatter int / float
IntOr0(value) == IF value = <<>> THEN 0 ELSE ParseInt(value).val
FloatOr0(value) == IF value = <<>> THEN <<0, 1>> ELSE ParseFloat(value).val

\* format_rows(quests, ap=int, ..., samples_1=int, samples_2=int)
format_quest_rows(rows) ==
    [i \in DOMAIN rows |-> [id |-> rows[i].id, ap |-> IntOr0(rows[i].ap),
                            samples_1 |-> IntOr0(rows[i].samples_1),
                            samples_2 |-> IntOr0(rows[i].samples_2)]]

\* format_rows(drop_rates, drop_rate_1=float, drop_rate_2=float)
format_drop_rate_rows(rows) ==
    [i \in DOMAIN rows |-> [quest_id |-> rows[i].quest_id, item_id |-> rows[i].item_id,
                            drop_rate_1 |-> FloatOr0(rows[i].drop_rate_1),
                            drop_rate_2 |-> FloatOr0(rows[i].drop_rate_2)]]

----------------------------------------------------------------------------
(* Quest selection: filter_quests                                          *)

\* quest['id'][:2] and quest['id'][0] (as a string)
get_area(quest) == SubSeq(quest.id, 1, Min(2, Len(quest.id)))
get_section(quest) == <<quest.id[1]>>

\* the condition of the list comprehension of filter_quests
QuestMatchesNoSection(quest, param_quests) ==
    \/ quest.id \in Range(param_quests)
    \/ get_area(quest) \in Range(param_quests)

QuestMatches(quest, param_quests) ==
    \/ quest.id \in Range(param_quests)
    \/ get_area(quest) \in Range(param_quests)
    \/ get_section(quest) \in Range(param_quests)

\* d.get(key) is truthy: the key is there and its value is not 0.0
Truthy(d, key) == key \in DOMAIN d /\ ~RIsZero(d[key])

\* a.get(id) or a.get(area) or a.get(section) or 1
ApCoefficient(quest, ap_coefficients) ==
    IF Truthy(ap_coefficients, quest.id) THEN ap_coefficients[quest.id]
    ELSE IF Truthy(ap_coefficients, get_area(quest)) THEN ap_coefficients[get_area(quest)]
    ELSE IF Truthy(ap_coefficients, get_section(quest)) THEN ap_coefficients[get_section(quest)]
    ELSE RInt(1)

filter_quests(qs, param_quests, ap_coefficients) ==
    LET Test(quest) == QuestMatches(quest, param_quests)
        selected == IF param_quests /= <<>> THEN SelectSeq(qs, Test) ELSE qs
    IN  [i \in DOMAIN selected |->
            [selected[i] EXCEPT !.ap = Floor(RMul(RInt(@), ApCoefficient(selected[i], ap_coefficients)))]]

----------------------------------------------------------------------------
(* Drop-rate merge: filter_drop_rates, merge_drop_rates                    *)

filter_drop_rates(rows, qs) ==
    LET Test(row) == row.quest_id \in {qs[i].id : i \in DOMAIN qs}
    IN  SelectSeq(rows, Test)

\* row.pop(key, 0)
Pop(row, key) == IF key \in DOMAIN row THEN row[key] ELSE <<0, 1>>

\* {row['id']: row.get(key, 0) for row in quests}.get(quest_id, 0):
\* the last quest of that id decides
SamplesOf(qs, key, quest_id) ==
    LET at == {i \in DOMAIN qs : qs[i].id = quest_id}
    IN  IF at = {} THEN 0
        ELSE LET last == CHOOSE i \in at : \A j \in at : j <= i
             IN  IF key \in DOMAIN qs[last] THEN qs[last][key] ELSE 0

\* the plain mean of the two waves
MergedRateUnweighted(row, qs, method) ==
    RDiv(RAdd(Pop(row, "drop_rate_1"), Pop(row, "drop_rate_2")), RInt(2))

\* the value merge_drop_rates stores in row['drop_rate']
MergedRate(row, qs, method) ==
    IF method = <<"add">>
    THEN LET samples_1 == SamplesOf(qs, "samples_1", row.quest_id)
             samples_2 == SamplesOf(qs, "samples_2", row.quest_id)
         IN  IF samples_1 /= 0 \/ samples_2 /= 0
             THEN RDiv(RAdd(RMul(Pop(row, "drop_rate_1"), RInt(samples_1)),
                            RMul(Pop(row, "drop_rate_2"), RInt(samples_2))),
                       RInt(samples_1 + samples_2))
             ELSE RInt(0)
    ELSE LET primary == method[1]
             secondary == IF primary = "2" THEN "1" ELSE "2"
             drop_rate_primary == Pop(row, "drop_rate_" \o primary)
             drop_rate_secondary == Pop(row, "drop_rate_" \o secondary)
         IN  IF ~RIsZero(drop_rate_primary) THEN drop_rate_primary ELSE drop_rate_secondary

merge_drop_rates(rows, qs, method) ==
    [i \in DOMAIN rows |-> [quest_id |-> rows[i].quest_id, item_id |-> rows[i].item_id,
                            drop_rate |-> MergedRate(rows[i], qs, method)]]

----------------------------------------------------------------------------
(* Model build and solve: solve                                            *)
(*                                                                         *)
(* problem.solve() is pulp's LP solver, a library outside the repository.  *)
(* It is modelled by its contract: on an LP with an optimum it leaves an   *)
(* optimal vertex in the variables; on an infeasible or unbounded LP it    *)
(* leaves some non-negative values there (the code never reads the status  *)
(* it returns).  The LPs of the dataset have at most two constraints, so   *)
(* every vertex has at most two non-zero laps and is found among the basic *)
(* solutions below.                                                        *)

QuestIdsOf(qs) == {qs[i].id : i \in DOMAIN qs}

\* the quest of that id in quest_to_info: the last one of the list
QuestInfo(qs, id) ==
    LET at == {i \in DOMAIN qs : qs[i].id = id}
    IN  qs[CHOOSE i \in at : \A j \in at : j <= i]

\* the coefficients of problem.setObjective(...)
ObjectiveOf(objective, qs) ==
    [q \in QuestIdsOf(qs) |-> IF objective = <<"lap">> THEN 1 ELSE QuestInfo(qs, q).ap]

\* the LpAffineExpression of an item: {lap[row.quest_id]: row.drop_rate}
\* over the rows of the item, a later row of the same quest replacing an
\* earlier one
ExpressionOf(rows, item) ==
    LET at(q) == {i \in DOMAIN rows : rows[i].item_id = item /\ rows[i].quest_id = q}
    IN  [q \in {rows[i].quest_id : i \in {j \in DOMAIN rows : rows[j].item_id = item}} |->
            rows[CHOOSE i \in at(q) : \A j \in at(q) : j <= i].drop_rate]

\* item_count_expressions: one expression per item that has a row
ExpressionsOf(rows) == [item \in {rows[i].item_id : i \in DOMAIN rows} |-> ExpressionOf(rows, item)]

\* the right-hand sides of the constraints added to the problem: one per
\* item that has an expression and is in param_items
ConstraintsOf(expressions, param_items) ==
    [item \in (DOMAIN expressions) \cap (DOMAIN param_items) |-> param_items[item]]

\* lines 219-239 of solve
build_problem(objective, param_items, qs, rows) ==
    [variables   |-> QuestIdsOf(qs),
     objective   |-> ObjectiveOf(objective, qs),
     expressions |-> ExpressionsOf(rows),
     constraints |-> ConstraintsOf(ExpressionsOf(rows), param_items)]

NoProblem == [variables |-> {}, objective |-> EmptyDict, expressions |-> EmptyDict, constraints |-> EmptyDict]

Coef(prob, item, q) ==
    IF item \in DOMAIN prob.expressions /\ q \in DOMAIN prob.expressions[item]
    THEN prob.expressions[item][q] ELSE RInt(0)

\* pulp.value of an expression under the variable values x
ExprValue(expr, x) == RSum(DOMAIN expr, [q \in DOMAIN expr |-> RMul(expr[q], x[q])])

ObjValue(prob, x) == RSum(prob.variables, [q \in prob.variables |-> RMul(RInt(prob.objective[q]), x[q])])

NonNegative(prob, x) == \A q \in prob.variables : RLe(RInt(0), x[q])

Feasible(prob, x) ==
    /\ NonNegative(prob, x)
    /\ \A item \in DOMAIN prob.constraints :
          RLe(RInt(prob.constraints[item]), ExprValue(prob.expressions[item], x))

ZeroLaps(prob) == [q \in prob.variables |-> RInt(0)]

\* the basic solutions: all laps zero; one lap set by one tight constraint;
\* two laps set by two tight constraints (Cramer's rule)
BasicSolutions(prob) ==
    LET V == prob.variables
        C == DOMAIN prob.constraints
        rhs(i) == RInt(prob.constraints[i])
        det(i, j, p, q) == RSub(RMul(Coef(prob, i, p), Coef(prob, j, q)),
                                RMul(Coef(prob, i, q), Coef(prob, j, p)))
        single == {[ZeroLaps(prob) EXCEPT ![iq[2]] = RDiv(rhs(iq[1]), Coef(prob, iq[1], iq[2]))] :
                      iq \in {c \in C \X V : ~RIsZero(Coef(prob, c[1], c[2]))}}
        double == {[ZeroLaps(prob) EXCEPT
                       ![t[3]] = RDiv(RSub(RMul(rhs(t[1]), Coef(prob, t[2], t[4])),
                                           RMul(rhs(t[2]), Coef(prob, t[1], t[4]))),
                                      det(t[1], t[2], t[3], t[4])),
                       ![t[4]] = RDiv(RSub(RMul(rhs(t[2]), Coef(prob, t[1], t[3])),
                                           RMul(rhs(t[1]), Coef(prob, t[2], t[3]))),
                                      det(t[1], t[2], t[3], t[4]))] :
                      t \in {u \in C \X C \X V \X V :
                                u[1] /= u[2] /\ u[3] /= u[4] /\ ~RIsZero(det(u[1], u[2], u[3], u[4]))}}
    IN  {ZeroLaps(prob)} \cup single \cup double

\* the status problem.solve() returns
Status(prob) ==
    IF \A x \in BasicSolutions(prob) : ~Feasible(prob, x) THEN "Infeasible"
    ELSE IF \E q \in prob.variables : prob.objective[q] < 0 THEN "Unbounded"
    ELSE "Optimal"

\* the variable values problem.solve() can leave behind
SolverValues(prob) ==
    IF Status(prob) = "Optimal"
    THEN {x \in BasicSolutions(prob) :
             /\ Feasible(prob, x)
             /\ \A y \in BasicSolutions(prob) : Feasible(prob, y) => RLe(ObjValue(prob, x), ObjValue(prob, y))}
    ELSE {x \in BasicSolutions(prob) : NonNegative(prob, x)}

\* format_value: the entries whose value is > 0
format_value(values) == [k \in {j \in DOMAIN values : RLt(RInt(0), values[j])} |-> values[k]]

\* lines 243-253 of solve, for the variable values x
solve_result(prob, x) ==
    [item_counts |-> format_value([item \in DOMAIN prob.expressions |-> ExprValue(prob.expressions[item], x)]),
     quest_laps  |-> format_value(x)]

NoSolution == [item_counts |-> EmptyDict, quest_laps |-> EmptyDict]

----------------------------------------------------------------------------
(* Aggregation, persistence and projection                                 *)

ParamKeys == {"objective", "items", "quests", "ap_coefficients", "drop_merge_method"}

\* bool(v) of a value of params: a non-empty string, list or dictionary
\* (in the model all three are empty exactly when their domain is)
NonEmpty(v) == DOMAIN v /= {}

\* {k: v for k, v in params.items() if v and 'fields' not in k}
ParamsEcho(p) == [k \in {j \in ParamKeys : NonEmpty(p[j])} |-> p[k]]

\* the 'quests' list: one entry per quest of quest_laps, in the order of
\* the quest list
ResultQuests(quest_laps, qs) ==
    LET Test(quest) == quest.id \in DOMAIN quest_laps
        kept == SelectSeq(qs, Test)
    IN  [i \in DOMAIN kept |->
            [id |-> kept[i].id, lap |-> Ceil(quest_laps[kept[i].id]),
             ap |-> QuestInfo(qs, kept[i].id).ap,
             samples_1 |-> QuestInfo(qs, kept[i].id).samples_1,
             samples_2 |-> QuestInfo(qs, kept[i].id).samples_2]]

\* the 'items' list: one entry per item of item_counts, in sorted order
ResultItems(item_counts, items) ==
    LET Test(id) == id \in DOMAIN item_counts
        kept == SelectSeq(ItemOrder, Test)
        info(id) == items[CHOOSE i \in DOMAIN items : items[i].id = id]
    IN  [i \in DOMAIN kept |->
            [id |-> kept[i], count |-> Round(item_counts[kept[i]]), name |-> info(kept[i]).name]]

ResultDropRates(rows, quest_laps) ==
    LET Test(row) == row.quest_id \in DOMAIN quest_laps
    IN  SelectSeq(rows, Test)

\* sum(math.ceil(lap) for lap in quest_laps.values())
TotalLap(quest_laps) == SumOver(DOMAIN quest_laps, [q \in DOMAIN quest_laps |-> Ceil(quest_laps[q])])

\* sum(int(quest_to_info[quest]['ap'] * lap) for quest, lap in quest_laps.items())
TotalAp(quest_laps, qs) ==
    SumOver(DOMAIN quest_laps,
            [q \in DOMAIN quest_laps |-> Trunc(RMul(RInt(QuestInfo(qs, q).ap), quest_laps[q]))])

format_result(item_counts, quest_laps, items, qs, rows, p) ==
    ("params" :> ParamsEcho(p)) @@
    ("quests" :> ResultQuests(quest_laps, qs)) @@
    ("items" :> ResultItems(item_counts, items)) @@
    ("drop_rates" :> ResultDropRates(rows, quest_laps)) @@
    ("total_lap" :> TotalLap(quest_laps)) @@
    ("total_ap" :> TotalAp(quest_laps, qs))

NoResult == [k \in {} |-> 0]

\* Decimal(str(v)): a number json.dumps cannot serialise
Decimal(v) == <<"Decimal", v[1], v[2]>>
IsDecimal(v) == Len(v) = 3

\* round(v, 3)
Round3(v) == RNorm(Round(RMul(v, RInt(1000))), 1000)

\* what save_to_dynamodb leaves in the caller's result: item is a shallow
\* copy, so the assignment to item['params']['ap_coefficients'] writes into
\* the params dictionary the result shares with it
ResultAfterSave(res) ==
    LET old == IF "ap_coefficients" \in DOMAIN res["params"]
               THEN res["params"]["ap_coefficients"] ELSE EmptyDict
        decimals == [k \in DOMAIN old |-> Decimal(old[k])]
    IN  [res EXCEPT !["params"] = ("ap_coefficients" :> decimals) @@ res["params"]]

\* the item save_to_dynamodb puts into the table
SavedItem(res) ==
    LET rows == res["drop_rates"]
    IN  [ResultAfterSave(res) EXCEPT
            !["drop_rates"] = [i \in DOMAIN rows |-> [rows[i] EXCEPT !.drop_rate = Decimal(Round3(@))]]]

HasField(p, key) == <<key>> \in Range(p.fields)

\* result['quests'].items() and result['items'].items() are calls on a
\* list: AttributeError
filter_result_raises(res, p) ==
    p.fields /= <<>> /\ (p.quest_fields /= <<>> \/ p.item_fields /= <<>>)

\* filter_result when it does not raise
filter_result(res, p) ==
    IF p.fields /= <<>>
    THEN [k \in {j \in DOMAIN res : HasField(p, j)} |-> res[k]]
    ELSE res

\* json.dumps(result) raises TypeError on a Decimal
JsonDumpsRaises(res) ==
    /\ "params" \in DOMAIN res
    /\ "ap_coefficients" \in DOMAIN res["params"]
    /\ \E k \in DOMAIN res["params"]["ap_coefficients"] : IsDecimal(res["params"]["ap_coefficients"][k])

----------------------------------------------------------------------------
(* The handler                                                             *)

\* event.get('queryStringParameters') is None
None == [none |-> TRUE]
IsNone(e) == "none" \in DOMAIN e

Pending == [kind |-> "none", statusCode |-> 0, body |-> EmptyDict, exception |-> ""]
\* return {...}: statusCode 0 stands for a dictionary without statusCode
Returned(status, body) == [kind |-> "return", statusCode |-> status, body |-> body, exception |-> ""]
\* an exception leaving the handler
Raised(exception) == [kind |-> "raise", statusCode |-> 0, body |-> EmptyDict, exception |-> exception]

Usage == [usage |-> "usage"]

\* the statements of the handler after the params check, in program order
HandlerOrderProjectFirst ==
    <<"normalize", "load", "select", "merge", "build", "solve", "aggregate", "project", "persist", "respond">>

HandlerOrder ==
    <<"normalize", "load", "select", "merge", "build", "solve", "aggregate", "persist", "project", "respond">>

NextStage(stage) ==
    LET i == CHOOSE j \in DOMAIN HandlerOrder : HandlerOrder[j] = stage
    IN  IF i = Len(HandlerOrder) THEN "done" ELSE HandlerOrder[i + 1]

DefaultParams ==
    [fields |-> <<>>, quest_fields |-> <<>>, item_fields |-> <<>>, objective |-> <<"ap">>,
     items |-> EmptyDict, quests |-> <<>>, ap_coefficients |-> EmptyDict,
     drop_merge_method |-> <<"add">>]

\* lines 26-58: the usage answer, decode_params, validate_params, format_params
Normalize ==
    /\ pc = "normalize"
    /\ IF IsNone(event)
       THEN /\ response' = Returned(0, Usage)
            /\ pc' = "done"
            /\ UNCHANGED <<params, trace>>
       ELSE /\ trace' = Append(trace, "normalize")
            /\ IF decode_params_raises(event)
               THEN /\ response' = Raised("ValueError")
                    /\ pc' = "done"
                    /\ UNCHANGED params
               ELSE LET decoded == decode_params(event)
                        invalid == validate_params(decoded)
                        error == IF invalid /= NoError THEN invalid ELSE format_params_error(decoded)
                    IN  IF error /= NoError
                        THEN /\ response' = Returned(400, [message |-> "invalid", invalid_params |-> error])
                             /\ pc' = "done"
                             /\ params' = decoded
                        ELSE /\ params' = format_params(decoded)
                             /\ pc' = NextStage("normalize")
                             /\ UNCHANGED response
    /\ UNCHANGED <<event, quests, drop_rates, problem, solution, result, table, input, output>>

\* lines 60-62: get_data and format_rows
LoadData ==
    /\ pc = "load"
    /\ trace' = Append(trace, "load")
    /\ quests' = format_quest_rows(QuestsCsv)
    /\ drop_rates' = format_drop_rate_rows(DropRatesCsv)
    /\ pc' = NextStage("load")
    /\ UNCHANGED <<event, params, problem, solution, result, table, response, input, output>>

\* line 64
SelectQuests ==
    /\ pc = "select"
    /\ trace' = Append(trace, "select")
    /\ quests' = filter_quests(quests, params.quests, params.ap_coefficients)
    /\ pc' = NextStage("select")
    /\ UNCHANGED <<event, params, drop_rates, problem, solution, result, table, response, input, output>>

\* lines 65-66
MergeRates ==
    /\ pc = "merge"
    /\ trace' = Append(trace, "merge")
    /\ drop_rates' = merge_drop_rates(filter_drop_rates(drop_rates, quests), quests, params.drop_merge_method)
    /\ pc' = NextStage("merge")
    /\ UNCHANGED <<event, params, quests, problem, solution, result, table, response, input, output>>

\* line 68, solve up to the call of the solver
BuildModel ==
    /\ pc = "build"
    /\ trace' = Append(trace, "build")
    /\ problem' = build_problem(params.objective, params.items, quests, drop_rates)
    /\ pc' = NextStage("build")
    /\ UNCHANGED <<event, params, quests, drop_rates, solution, result, table, response, input, output>>

\* line 68, solve from problem.solve() on
SolveModel ==
    /\ pc = "solve"
    /\ trace' = Append(trace, "solve")
    /\ \E x \in SolverValues(problem) : solution' = solve_result(problem, x)
    /\ pc' = NextStage("solve")
    /\ UNCHANGED <<event, params, quests, drop_rates, problem, result, table, response, input, output>>

\* line 69
Aggregate ==
    /\ pc = "aggregate"
    /\ trace' = Append(trace, "aggregate")
    /\ result' = format_result(solution.item_counts, solution.quest_laps, ItemsCsv, quests, drop_rates, params)
    /\ pc' = NextStage("aggregate")
    /\ UNCHANGED <<event, params, quests, drop_rates, problem, solution, table, response, input, output>>

GeneratedId == <<"uuid1">>

\* lines 71-73
Persist ==
    /\ pc = "persist"
    /\ IF HasField(params, "id")
       THEN LET with_id == ("id" :> GeneratedId) @@ result
            IN  /\ trace' = Append(trace, "persist")
                /\ table' = Append(table, SavedItem(with_id))
                /\ result' = ResultAfterSave(with_id)
       ELSE UNCHANGED <<trace, table, result>>
    /\ pc' = NextStage("persist")
    /\ UNCHANGED <<event, params, quests, drop_rates, problem, solution, response, input, output>>

\* line 75
Project ==
    /\ pc = "project"
    /\ trace' = Append(trace, "project")
    /\ IF filter_result_raises(result, params)
       THEN /\ response' = Raised("AttributeError")
            /\ pc' = "done"
            /\ UNCHANGED result
       ELSE /\ result' = filter_result(result, params)
            /\ pc' = NextStage("project")
            /\ UNCHANGED response
    /\ UNCHANGED <<event, params, quests, drop_rates, problem, solution, table, input, output>>

\* lines 80-83
Respond ==
    /\ pc = "respond"
    /\ response' = IF JsonDumpsRaises(result) THEN Raised("TypeError") ELSE Returned(200, result)
    /\ pc' = NextStage("respond")
    /\ UNCHANGED <<event, params, quests, drop_rates, problem, solution, result, table, trace, input, output>>

----------------------------------------------------------------------------
(* Requests                                                                *)

FieldsChoices ==
    { <<>>, <<"id">>, <<"id", ",", "params">>, <<"quests", ",", "items">>,
      <<"quests", ",", "total_ap", ",", "id">> }

\* <<quest_fields, item_fields>>
ProjectionChoices ==
    { << <<>>, <<>> >>, << <<"id", ",", "lap">>, <<>> >>, << <<>>, <<"count">> >> }

ObjectiveChoices == { <<>>, <<"lap">>, <<"qp">> }

ItemsChoices ==
    { <<>>, <<"X", ":", "1">>, <<"X", ":", "5", "0">>, <<"X", ":", "1", ",", "Y", ":", "1">>,
      <<"Y", ":", "2">>, <<"Z", ":", "1">>, <<"X", ":", "-", "1">>, <<"X", ":", "a">>,
      <<"X">>, <<"X", ":", "1", ":", "2">> }

QuestsChoices == { <<>>, <<"0", "0", "1">>, <<"0", "0", "2">>, <<"1">>, <<"0", "0", ",", "1", "0">> }

ApCoefficientsChoices ==
    { <<>>, <<"0", ":", "0", ".", "5">>, <<"0", "0", "1", ":", "0", ",", "0", "0", ":", "2">>,
      <<"0", ":", "x">>, <<"0", "0">> }

MergeMethodChoices == { <<>>, <<"1">>, <<"2">>, <<"3">> }

Requests ==
    { [fields |-> f, quest_fields |-> pr[1], item_fields |-> pr[2], objective |-> o, items |-> i,
       quests |-> q, ap_coefficients |-> a, drop_merge_method |-> m] :
         f \in FieldsChoices, pr \in ProjectionChoices, o \in ObjectiveChoices, i \in ItemsChoices,
         q \in QuestsChoices, a \in ApCoefficientsChoices, m \in MergeMethodChoices }

Init ==
    /\ event \in Requests \cup {None}
    /\ pc = "normalize"
    /\ params = DefaultParams
    /\ quests = <<>>
    /\ drop_rates = <<>>
    /\ problem = NoProblem
    /\ solution = NoSolution
    /\ result = NoResult
    /\ table = <<>>
    /\ response = Pending
    /\ trace = <<>>
    /\ input = EmptyDict
    /\ output = <<>>

Next ==
    \/ Normalize
    \/ LoadData
    \/ SelectQuests
    \/ MergeRates
    \/ BuildModel
    \/ SolveModel
    \/ Aggregate
    \/ Persist
    \/ Project
    \/ Respond

Spec == Init /\ [][Next]_vars

----------------------------------------------------------------------------
(* filter_quests called on its own                                         *)

SubList(pool, S) == LET Test(x) == x \in S IN SelectSeq(pool, Test)

QuestIdPool == << <<"0", "0", "1">>, <<"0", "1", "1">>, <<"1", "0", "1">> >>

TokenPool == << <<"0">>, <<"0", "0">>, <<"0", "1", "1">>, <<"1", "0">> >>

CoefficientKeys == { <<"0", "0", "1">>, <<"0", "0">>, <<"0">> }

CoefficientValues == { <<0, 1>>, <<1, 2>>, <<3, 2>> }

QuestListChoices ==
    { [i \in DOMAIN SubList(QuestIdPool, S) |->
          [id |-> SubList(QuestIdPool, S)[i], ap |-> a, samples_1 |-> 1, samples_2 |-> 1]] :
        S \in SUBSET Range(QuestIdPool), a \in 0..MaxAp }

FilterQuestsInputs ==
    [quests : QuestListChoices,
     param_quests : {SubList(TokenPool, S) : S \in SUBSET Range(TokenPool)},
     ap_coefficients : UNION {[K -> CoefficientValues] : K \in SUBSET CoefficientKeys}]

InitQuests ==
    /\ input \in FilterQuestsInputs
    /\ output = <<>>
    /\ pc = "call"
    /\ event = None
    /\ params = DefaultParams
    /\ quests = <<>>
    /\ drop_rates = <<>>
    /\ problem = NoProblem
    /\ solution = NoSolution
    /\ result = NoResult
    /\ table = <<>>
    /\ response = Pending
    /\ trace = <<>>

CallFilterQuests ==
    /\ pc = "call"
    /\ output' = filter_quests(input.quests, input.param_quests, input.ap_coefficients)
    /\ pc' = "returned"
    /\ UNCHANGED <<event, params, quests, drop_rates, problem, solution, result, table, response, trace, input>>

SpecQuests == InitQuests /\ [][CallFilterQuests]_vars

----------------------------------------------------------------------------
(* merge_drop_rates called on its own                                      *)

SampleValues == (0..MaxSamples) \cup {10}

\* a wave's rate in a row: the key missing, or one of three values
RateChoices == { [has |-> FALSE, val |-> <<0, 1>>], [has |-> TRUE, val |-> <<0, 1>>],
                 [has |-> TRUE, val |-> <<1, 10>>], [has |-> TRUE, val |-> <<1, 2>>] }

RowOf(quest_id, r1, r2) ==
    [quest_id |-> quest_id, item_id |-> <<"X">>]
      @@ (IF r1.has THEN [drop_rate_1 |-> r1.val] ELSE EmptyDict)
      @@ (IF r2.has THEN [drop_rate_2 |-> r2.val] ELSE EmptyDict)

MergeInputs ==
    { [rows   |-> << RowOf(<<"0", "0", "1">>, r1, r2), RowOf(<<"0", "0", "2">>, r2, r1) >>,
       quests |-> << [id |-> <<"0", "0", "1">>, ap |-> 1, samples_1 |-> a, samples_2 |-> b],
                     [id |-> <<"0", "0", "2">>, ap |-> 1, samples_1 |-> b, samples_2 |-> a] >>,
       method |-> m] :
        r1 \in RateChoices, r2 \in RateChoices, a \in SampleValues, b \in SampleValues, m \in MergeMethods }

InitMerge ==
    /\ input \in MergeInputs
    /\ output = <<>>
    /\ pc = "call"
    /\ event = None
    /\ params = DefaultParams
    /\ quests = <<>>
    /\ drop_rates = <<>>
    /\ problem = NoProblem
    /\ solution = NoSolution
    /\ result = NoResult
    /\ table = <<>>
    /\ response = Pending
    /\ trace = <<>>

CallMergeDropRates ==
    /\ pc = "call"
    /\ output' = merge_drop_rates(input.rows, input.quests, input.method)
    /\ pc' = "returned"
    /\ UNCHANGED <<event, params, quests, drop_rates, problem, solution, result, table, response, trace, input>>

SpecMerge == InitMerge /\ [][CallMergeDropRates]_vars

----------------------------------------------------------------------------
(* Properties                                                              *)

Prefix(id, n) == SubSeq(id, 1, IF Len(id) < n THEN Len(id) ELSE n)

\* the merged rate of a (quest, item) pair in a list of merged rows, 0 when
\* the pair has no row
RateOf(rows, q, item) ==
    LET at == {i \in DOMAIN rows : rows[i].quest_id = q /\ rows[i].item_id = item}
    IN  IF at = {} THEN RInt(0) ELSE rows[CHOOSE i \in at : \A j \in at : j <= i].drop_rate

\* C1: in the model built by solve, every item of the target map with a
\* required count > 0 has the constraint
\*   sum over the selected quests q of merged_rate(q, i) * lap(q) >= count_i,
\* also when no selected quest has a drop-rate row for the item.
C1_EveryTargetConstrained ==
    "build" \in Range(trace) =>
        \A item \in DOMAIN params.items :
            params.items[item] > 0 =>
                /\ item \in DOMAIN problem.constraints
                /\ problem.constraints[item] = params.items[item]
                /\ \A q \in QuestIdsOf(quests) : Coef(problem, item, q) = RateOf(drop_rates, q, item)

\* a targeted item with count > 0 that no selected quest drops
UnreachableTarget ==
    \E item \in DOMAIN params.items :
        /\ params.items[item] > 0
        /\ \A q \in QuestIdsOf(quests) : RIsZero(RateOf(drop_rates, q, item))

\* C2: when a targeted item with count > 0 has merged drop rate 0 across
\* every selected quest, the handler does not answer with statusCode 200.
C2_InfeasibleIsAnError ==
    (pc = "done" /\ "solve" \in Range(trace) /\ UnreachableTarget) => response.statusCode /= 200

\* C3: every number of the aggregated plan is evaluated at the rounded-up
\* lap counts: each reported lap is ceil(lap(q)), total_lap is the sum of
\* them, total_ap is the sum of effective_ap(q) * ceil(lap(q)), and each
\* item count is round(sum of merged_rate(q, i) * ceil(lap(q))).
C3_PlanAtRoundedLaps ==
    pc = "persist" =>
        LET laps == solution.quest_laps
            up == [q \in DOMAIN laps |-> Ceil(laps[q])]
            yield(item) == RSum(DOMAIN laps, [q \in DOMAIN laps |-> RMul(RateOf(drop_rates, q, item), RInt(up[q]))])
        IN  /\ result["total_lap"] = SumOver(DOMAIN laps, up)
            /\ result["total_ap"] = SumOver(DOMAIN laps, [q \in DOMAIN laps |-> QuestInfo(quests, q).ap * up[q]])
            /\ \A i \in DOMAIN result["quests"] : result["quests"][i].lap = up[result["quests"][i].id]
            /\ \A i \in DOMAIN result["items"] : result["items"][i].count = Round(yield(result["items"][i].id))

\* a number of a request: digits with at most one ".", no sign
IsNonNegativeNumber(s) ==
    /\ \E i \in DOMAIN s : s[i] \in Digits
    /\ \A i \in DOMAIN s : s[i] \in Digits \cup {"."}
    /\ Cardinality({i \in DOMAIN s : s[i] = "."}) <= 1

MalformedPair(value) ==
    value /= <<>> /\ \E item \in Range(Split(value, ",")) : Len(Split(item, ":")) /= 2

InvalidNumber(value) ==
    value /= <<>> /\ \E item \in Range(Split(value, ",")) :
        Len(Split(item, ":")) = 2 /\ ~IsNonNegativeNumber(Split(item, ":")[2])

InvalidRequest(e) ==
    \/ e.objective /= <<>> /\ e.objective \notin {<<"ap">>, <<"lap">>}
    \/ e.drop_merge_method /= <<>> /\ e.drop_merge_method \notin {<<"add">>, <<"1">>, <<"2">>}
    \/ MalformedPair(e.items) \/ MalformedPair(e.ap_coefficients)
    \/ InvalidNumber(e.items) \/ InvalidNumber(e.ap_coefficients)

\* C4: a request with an unknown objective or drop_merge_method, an item
\* count or AP coefficient that is not a valid non-negative number, or a
\* malformed key:value pair ends in a statusCode 400 response that names
\* the offending field and a reason.
C4_InvalidInputIsParamError ==
    (pc = "done" /\ ~IsNone(event) /\ InvalidRequest(event)) =>
        /\ response.statusCode = 400
        /\ response.body.invalid_params.name \in Keys
        /\ response.body.invalid_params.reason /= ""

\* C5: merge_drop_rates gives every row one merged rate: with method add
\* the average of the two waves' rates weighted by the sample counts of the
\* row's quest, 0 when both counts are 0 (and the first wave's rate when
\* only the first wave has samples); with method 1 or 2 the chosen wave's
\* rate, or the other wave's when the chosen one is zero or absent.
C5_MergedRateIsWeightedAverage ==
    pc = "returned" =>
        /\ Len(output) = Len(input.rows)
        /\ \A i \in DOMAIN input.rows :
              LET row == input.rows[i]
                  quest == CHOOSE q \in Range(input.quests) : q.id = row.quest_id
                  r1 == IF "drop_rate_1" \in DOMAIN row THEN row.drop_rate_1 ELSE <<0, 1>>
                  r2 == IF "drop_rate_2" \in DOMAIN row THEN row.drop_rate_2 ELSE <<0, 1>>
                  s1 == quest.samples_1
                  s2 == quest.samples_2
                  m == output[i].drop_rate
              IN  /\ output[i].quest_id = row.quest_id
                  /\ output[i].item_id = row.item_id
                  /\ DOMAIN output[i] = {"quest_id", "item_id", "drop_rate"}
                  /\ input.method = <<"add">> =>
                        /\ s1 + s2 = 0 => m = <<0, 1>>
                        /\ s1 + s2 > 0 =>
                              m[1] * (r1[2] * r2[2] * (s1 + s2)) = m[2] * (r1[1] * s1 * r2[2] + r2[1] * s2 * r1[2])
                        /\ (s1 > 0 /\ s2 = 0) => m = r1
                  /\ input.method = <<"1">> => m = IF r1[1] /= 0 THEN r1 ELSE r2
                  /\ input.method = <<"2">> => m = IF r2[1] /= 0 THEN r2 ELSE r1

\* samples (10, 0) and rates (0.5, 0.1) merged with add: 0.5
C5_Witness ==
    /\ pc = "returned"
    /\ input.method = <<"add">>
    /\ input.quests[1].samples_1 = 10 /\ input.quests[1].samples_2 = 0
    /\ DOMAIN input.rows[1] = {"quest_id", "item_id", "drop_rate_1", "drop_rate_2"}
    /\ input.rows[1].drop_rate_1 = <<1, 2>> /\ input.rows[1].drop_rate_2 = <<1, 10>>
    /\ output[1].drop_rate = <<1, 2>>

\* C6: filter_quests sets the effective AP of every selected quest to
\* floor(base_ap * c), c being the override of the quest id if the map has
\* one, else that of its area if the map has one, else that of its section
\* if the map has one, else 1; and for c < 1 the effective AP is <= base AP.
C6_FirstOverrideWins ==
    pc = "returned" =>
        \A i \in DOMAIN output :
            LET id == output[i].id
                base == (CHOOSE q \in Range(input.quests) : q.id = id).ap
                d == input.ap_coefficients
                c == IF id \in DOMAIN d THEN d[id]
                     ELSE IF Prefix(id, 2) \in DOMAIN d THEN d[Prefix(id, 2)]
                     ELSE IF Prefix(id, 1) \in DOMAIN d THEN d[Prefix(id, 1)]
                     ELSE <<1, 1>>
            IN  /\ output[i].ap * c[2] <= base * c[1]
                /\ base * c[1] < (output[i].ap + 1) * c[2]
                /\ (c[1] < c[2]) => output[i].ap <= base

\* C7: filter_quests returns exactly the quests whose id, area or section
\* is one of the requested tokens, in catalogue order, and every quest when
\* there is no token; a single section character selects the quests whose
\* id starts with it and no other.
C7_SelectedQuestsMatchTokens ==
    pc = "returned" =>
        LET tokens == Range(input.param_quests)
            Wanted(q) == \/ tokens = {}
                         \/ q.id \in tokens \/ Prefix(q.id, 2) \in tokens \/ Prefix(q.id, 1) \in tokens
            kept == SelectSeq(input.quests, Wanted)
        IN  /\ Len(output) = Len(kept)
            /\ \A i \in DOMAIN kept : output[i].id = kept[i].id
            /\ \A c \in {"0", "1"} :
                  tokens = {<<c>>} =>
                      {output[i].id : i \in DOMAIN output}
                        = {q.id : q \in {r \in Range(input.quests) : r.id[1] = c}}

\* the section token "0" on a catalogue with quests of both sections
C7_Witness ==
    /\ pc = "returned"
    /\ input.param_quests = << <<"0">> >>
    /\ Len(input.quests) = 3
    /\ Len(output) = 2

\* C8: filter_result only removes keys: it returns the plan without the
\* sections that fields does not allow and without the quest and item fields
\* that quest_fields and item_fields do not allow (an empty allow-list
\* allowing everything), and applying it again changes nothing.
C8_ProjectionOnlyRemovesKeys ==
    "project" \in Range(trace) =>
        /\ response.exception /= "AttributeError"
        /\ (pc = "respond") =>
              /\ \A k \in DOMAIN result : params.fields = <<>> \/ HasField(params, k)
              /\ ("quests" \in DOMAIN result /\ params.quest_fields /= <<>>) =>
                    \A i \in DOMAIN result["quests"] :
                        \A f \in DOMAIN result["quests"][i] : <<f>> \in Range(params.quest_fields)
              /\ ("items" \in DOMAIN result /\ params.item_fields /= <<>>) =>
                    \A i \in DOMAIN result["items"] :
                        \A f \in DOMAIN result["items"][i] : <<f>> \in Range(params.item_fields)
              /\ filter_result(result, params) = result

\* C9: a plan is persisted exactly when id is among the requested fields;
\* then the stored record holds the generated identifier and every section
\* of the aggregated plan, and the response is the one the request would
\* have had without persistence, plus the identifier.
C9_PersistenceLeavesPlanUnchanged ==
    "project" \in Range(trace) =>
        LET plan == format_result(solution.item_counts, solution.quest_laps, ItemsCsv, quests, drop_rates, params)
            expected == filter_result(plan, params)
        IN  /\ (table /= <<>>) <=> HasField(params, "id")
            /\ HasField(params, "id") =>
                  /\ Len(table) = 1
                  /\ table[1]["id"] = GeneratedId
                  /\ \A k \in DOMAIN plan : k \in DOMAIN table[1]
                  /\ (pc = "done" /\ ~filter_result_raises(plan, params)) =>
                        /\ response.statusCode = 200
                        /\ DOMAIN response.body = DOMAIN expected \cup {"id"}
                        /\ response.body["id"] = GeneratedId
                        /\ \A k \in DOMAIN expected : response.body[k] = expected[k]

\* the stages of the pipeline in the order of the overview, and in the
\* order of the statements of the handler
OverviewOrder ==
    <<"normalize", "load", "select", "merge", "build", "solve", "aggregate", "project", "persist">>
StatementOrder ==
    <<"normalize", "load", "select", "merge", "build", "solve", "aggregate", "persist", "project">>

Position(order, stage) == CHOOSE i \in DOMAIN order : order[i] = stage

\* the stages started so far are an initial run of the order, persistence
\* left out when id is not requested
RunsInOrder(order) ==
    /\ \A i \in DOMAIN trace : \A j \in DOMAIN trace :
          i < j => Position(order, trace[i]) < Position(order, trace[j])
    /\ \A k \in 1..Len(order) :
          (\E i \in DOMAIN trace : Position(order, trace[i]) > k) =>
              \/ \E i \in DOMAIN trace : trace[i] = order[k]
              \/ order[k] = "persist" /\ ~HasField(params, "id")

\* a statusCode 400 answer is given before any stage after normalisation
ValidationEndsRequest ==
    response.statusCode = 400 =>
        /\ trace = <<"normalize">>
        /\ quests = <<>> /\ drop_rates = <<>>
        /\ problem = NoProblem /\ solution = NoSolution /\ result = NoResult /\ table = <<>>

\* C10 as stated: the stages run in the order of the overview (projection
\* before persistence), and a validation failure ends the request before
\* any later stage.
C10_StagesInOverviewOrder == RunsInOrder(OverviewOrder) /\ ValidationEndsRequest

\* C10 as amended: the stages run in the order normalisation, load,
\* selection, merge, build, solve, aggregation, persistence (when id is
\* requested), projection, and a validation failure ends the request before
\* any later stage.
C10_StagesInStatementOrder == RunsInOrder(StatementOrder) /\ ValidationEndsRequest

\* a persisted and projected plan returned with statusCode 200
C10_Witness ==
    /\ pc = "done"
    /\ response.statusCode = 200
    /\ trace = StatementOrder

====
